---- MODULE Spec2Model ----
(***************************************************************************)
(* Model of the CircuitBreaker class (PreKey error protection).            *)
(*                                                                         *)
(* The breaker's fields are the variables state, failures, successes and   *)
(* openedAt; config is the immutable configuration handed to the           *)
(* constructor; now is the clock Date.now() reads.  Every public method is *)
(* an operator from the breaker's fields, the configuration and the clock  *)
(* readings it makes to the fields it leaves and the value it returns, and *)
(* one action applies it.  A method may read the clock up to three times;  *)
(* the readings never decrease but need not be equal.                      *)
(*                                                                         *)
(* Spec is one caller making the calls in any order.  SpecLog adds         *)
(* configurations whose logging sink raises; SpecTasks has concurrent      *)
(* callers that each ask canExecute() and report the outcome later         *)
(* (inflight, caller); SpecLive is the breaker without reset() under a     *)
(* clock that keeps advancing and callers that keep asking.                *)
(***************************************************************************)
EXTENDS Naturals, Integers, Sequences, FiniteSets

VARIABLES state, failures, successes, openedAt, config, now, last, statsSeen,
          inflight, caller

vars == <<state, failures, successes, openedAt, config, now, last, statsSeen,
          inflight, caller>>

(* ------------------------------ bounds --------------------------------- *)

\* The clock stops advancing at MaxTime.
MaxTime == 4
\* recordFailure is not called any more once the sequence holds MaxFailures records.
MaxFailures == 3
\* Two consecutive clock readings of one method call differ by at most MaxDrift.
MaxDrift == 1

(* --------------------------- configuration ----------------------------- *)

\* Error messages the callers report.
Errors == {"prekey missing", "socket closed"}

\* A configuration: the two thresholds, the two durations (in clock ticks),
\* the shouldCountError predicate, given by the set of messages it accepts
\* (Errors is the default, count everything), and the logging sink ("none"
\* when absent, "sink" for one with debug/info/warn).
Config(fT, fW, oT, sT, filter, logger) ==
    [failureThreshold |-> fT,
     failureWindow    |-> fW,
     openTimeout      |-> oT,
     successThreshold |-> sT,
     shouldCountError |-> filter,
     logger           |-> logger]

\* The shape of createPreKeyCircuitBreaker: a threshold of several failures,
\* a window no shorter than the open timeout, two successes to close, a
\* filter counting only key-related messages, a logger.
PreKeyConfig == Config(3, 2, 2, 2, {"prekey missing"}, "sink")

\* The configurations the breaker is constructed with: PreKeyConfig, and
\* others varying every option, down to thresholds of one.  Their sinks
\* return normally; a sink that raises is the logger "throws" below.
Configs ==
    {PreKeyConfig,
     Config(1, 1, 1, 1, Errors, "none"),
     Config(2, 1, 2, 1, {"prekey missing"}, "sink"),
     Config(2, 2, 1, 2, {"prekey missing"}, "none")}

\* Mutant: the filter is not consulted.
shouldCountError_ignored(cfg, error) == TRUE

shouldCountError(cfg, error) == error \in cfg.shouldCountError

\* config.logger?.level(...): what the sink receives.
Log(cfg, level) == IF cfg.logger = "none" THEN <<>> ELSE <<level>>

\* config.logger?.level(...) raising instead of returning.
LogThrows(cfg) == cfg.logger = "throws"

(* ------------------------------ breaker -------------------------------- *)

\* The fields of a freshly constructed breaker.
NewBreaker ==
    [state |-> "CLOSED", failures |-> <<>>, successes |-> 0, openedAt |-> 0]

Max(a, b) == IF a >= b THEN a ELSE b

\* Mutant: a record exactly failureWindow old is kept.
InWindow_inclusive(f, cfg, t) == f.timestamp >= t - cfg.failureWindow

\* Whether a failure record is kept by a pruning pass made at time t.
InWindow(f, cfg, t) == f.timestamp > t - cfg.failureWindow

\* Mutant: a pruning pass drops the oldest record as well.
cleanOldFailures_dropOldest(b, cfg, t) ==
    [b EXCEPT !.failures =
        LET kept == SelectSeq(b.failures, LAMBDA f : InWindow(f, cfg, t))
        IN  IF kept = <<>> THEN kept ELSE Tail(kept)]

cleanOldFailures(b, cfg, t) ==
    [b EXCEPT !.failures = SelectSeq(b.failures, LAMBDA f : InWindow(f, cfg, t))]

\* Mutant: entering OPEN does not zero successes.
transitionTo_keepSuccesses(b, cfg, newState, t) ==
    CASE newState = "OPEN" ->
           [b      |-> [b EXCEPT !.state = "OPEN", !.openedAt = t],
            logs   |-> Log(cfg, "warn"),
            thrown |-> LogThrows(cfg)]
      [] newState = "HALF_OPEN" ->
           [b      |-> [b EXCEPT !.state = "HALF_OPEN", !.successes = 0],
            logs   |-> Log(cfg, "info"),
            thrown |-> LogThrows(cfg)]
      [] newState = "CLOSED" ->
           [b      |-> [b EXCEPT !.state = "CLOSED", !.failures = <<>>,
                                 !.successes = 0, !.openedAt = 0],
            logs   |-> Log(cfg, "info"),
            thrown |-> LogThrows(cfg)]

\* Mutant: entering CLOSED does not empty the failure sequence.
transitionTo_keepFailures(b, cfg, newState, t) ==
    CASE newState = "OPEN" ->
           [b      |-> [b EXCEPT !.state = "OPEN", !.openedAt = t, !.successes = 0],
            logs   |-> Log(cfg, "warn"),
            thrown |-> LogThrows(cfg)]
      [] newState = "HALF_OPEN" ->
           [b      |-> [b EXCEPT !.state = "HALF_OPEN", !.successes = 0],
            logs   |-> Log(cfg, "info"),
            thrown |-> LogThrows(cfg)]
      [] newState = "CLOSED" ->
           [b      |-> [b EXCEPT !.state = "CLOSED", !.successes = 0, !.openedAt = 0],
            logs   |-> Log(cfg, "info"),
            thrown |-> LogThrows(cfg)]

\* Mutant: entering CLOSED does not clear openedAt.
transitionTo_keepOpenedAt(b, cfg, newState, t) ==
    CASE newState = "OPEN" ->
           [b      |-> [b EXCEPT !.state = "OPEN", !.openedAt = t, !.successes = 0],
            logs   |-> Log(cfg, "warn"),
            thrown |-> LogThrows(cfg)]
      [] newState = "HALF_OPEN" ->
           [b      |-> [b EXCEPT !.state = "HALF_OPEN", !.successes = 0],
            logs   |-> Log(cfg, "info"),
            thrown |-> LogThrows(cfg)]
      [] newState = "CLOSED" ->
           [b      |-> [b EXCEPT !.state = "CLOSED", !.failures = <<>>, !.successes = 0],
            logs   |-> Log(cfg, "info"),
            thrown |-> LogThrows(cfg)]

\* transitionTo(newState); t is the clock reading made on entering OPEN.
transitionTo(b, cfg, newState, t) ==
    CASE newState = "OPEN" ->
           [b      |-> [b EXCEPT !.state = "OPEN", !.openedAt = t, !.successes = 0],
            logs   |-> Log(cfg, "warn"),
            thrown |-> LogThrows(cfg)]
      [] newState = "HALF_OPEN" ->
           [b      |-> [b EXCEPT !.state = "HALF_OPEN", !.successes = 0],
            logs   |-> Log(cfg, "info"),
            thrown |-> LogThrows(cfg)]
      [] newState = "CLOSED" ->
           [b      |-> [b EXCEPT !.state = "CLOSED", !.failures = <<>>,
                                 !.successes = 0, !.openedAt = 0],
            logs   |-> Log(cfg, "info"),
            thrown |-> LogThrows(cfg)]

\* What a method call leaves: the fields, the returned value, the log
\* events emitted, whether it raised, and how many clock readings it made.
Outcome(b, ret, logs, thrown, reads) ==
    [b |-> b, ret |-> ret, logs |-> logs, thrown |-> thrown, reads |-> reads]

\* Mutant: the timeout must be exceeded, not reached.
timeoutPassed_strict(b, cfg, t) == t - b.openedAt > cfg.openTimeout

\* Date.now() - this.openedAt >= this.config.openTimeout
timeoutPassed(b, cfg, t) == t - b.openedAt >= cfg.openTimeout

\* Mutant: one success more than successThreshold is needed.
successThresholdReached_strict(b, cfg) == b.successes > cfg.successThreshold

\* this.successes >= this.config.successThreshold
successThresholdReached(b, cfg) == b.successes >= cfg.successThreshold

\* Mutant: one failure more than failureThreshold is needed.
failureThresholdReached_strict(b, cfg) == Len(b.failures) > cfg.failureThreshold

\* this.failures.length >= this.config.failureThreshold
failureThresholdReached(b, cfg) == Len(b.failures) >= cfg.failureThreshold

\* Mutant: calls are blocked while HALF_OPEN too.
canExecute_blockProbes(b, cfg, r) ==
    LET b1 == cleanOldFailures(b, cfg, r[1]) IN
    CASE b1.state = "CLOSED" -> Outcome(b1, TRUE, <<>>, FALSE, 1)
      [] b1.state = "OPEN" ->
           IF timeoutPassed(b1, cfg, r[2])
           THEN LET tr == transitionTo(b1, cfg, "HALF_OPEN", r[2])
                IN  Outcome(tr.b, TRUE, tr.logs, tr.thrown, 2)
           ELSE Outcome(b1, FALSE, <<>>, FALSE, 2)
      [] b1.state = "HALF_OPEN" -> Outcome(b1, FALSE, <<>>, FALSE, 1)

\* Mutant: an OPEN circuit is never probed.
canExecute_neverProbes(b, cfg, r) ==
    LET b1 == cleanOldFailures(b, cfg, r[1]) IN
    CASE b1.state = "CLOSED" -> Outcome(b1, TRUE, <<>>, FALSE, 1)
      [] b1.state = "OPEN" -> Outcome(b1, FALSE, <<>>, FALSE, 2)
      [] b1.state = "HALF_OPEN" -> Outcome(b1, TRUE, <<>>, FALSE, 1)

canExecute(b, cfg, r) ==
    LET b1 == cleanOldFailures(b, cfg, r[1]) IN
    CASE b1.state = "CLOSED" -> Outcome(b1, TRUE, <<>>, FALSE, 1)
      [] b1.state = "OPEN" ->
           IF timeoutPassed(b1, cfg, r[2])
           THEN LET tr == transitionTo(b1, cfg, "HALF_OPEN", r[2])
                IN  Outcome(tr.b, TRUE, tr.logs, tr.thrown, 2)
           ELSE Outcome(b1, FALSE, <<>>, FALSE, 2)
      [] b1.state = "HALF_OPEN" -> Outcome(b1, TRUE, <<>>, FALSE, 1)

\* Mutant: successes are counted while OPEN as well.
recordSuccess_anyState(b, cfg, r) ==
    IF b.state # "CLOSED"
    THEN LET b1 == [b EXCEPT !.successes = @ + 1] IN
         IF LogThrows(cfg)
         THEN Outcome(b1, TRUE, <<>>, TRUE, 0)
         ELSE IF successThresholdReached(b1, cfg)
              THEN LET tr == transitionTo(b1, cfg, "CLOSED", r[1])
                   IN  Outcome(tr.b, TRUE, Log(cfg, "debug") \o tr.logs, tr.thrown, 0)
              ELSE Outcome(b1, TRUE, Log(cfg, "debug"), FALSE, 0)
    ELSE Outcome(cleanOldFailures(b, cfg, r[1]), TRUE, <<>>, FALSE, 1)

\* Mutant: recordSuccess() notices the elapsed timeout while OPEN.
recordSuccess_eager(b, cfg, r) ==
    IF b.state = "HALF_OPEN"
    THEN LET b1 == [b EXCEPT !.successes = @ + 1] IN
         IF LogThrows(cfg)
         THEN Outcome(b1, TRUE, <<>>, TRUE, 0)
         ELSE IF successThresholdReached(b1, cfg)
              THEN LET tr == transitionTo(b1, cfg, "CLOSED", r[1])
                   IN  Outcome(tr.b, TRUE, Log(cfg, "debug") \o tr.logs, tr.thrown, 0)
              ELSE Outcome(b1, TRUE, Log(cfg, "debug"), FALSE, 0)
    ELSE IF b.state = "CLOSED"
         THEN Outcome(cleanOldFailures(b, cfg, r[1]), TRUE, <<>>, FALSE, 1)
         ELSE IF timeoutPassed(b, cfg, r[1])
              THEN LET tr == transitionTo(b, cfg, "HALF_OPEN", r[1])
                   IN  Outcome(tr.b, TRUE, tr.logs, tr.thrown, 1)
              ELSE Outcome(b, TRUE, <<>>, FALSE, 1)

recordSuccess(b, cfg, r) ==
    IF b.state = "HALF_OPEN"
    THEN LET b1 == [b EXCEPT !.successes = @ + 1] IN
         IF LogThrows(cfg)
         THEN Outcome(b1, TRUE, <<>>, TRUE, 0)
         ELSE IF successThresholdReached(b1, cfg)
              THEN LET tr == transitionTo(b1, cfg, "CLOSED", r[1])
                   IN  Outcome(tr.b, TRUE, Log(cfg, "debug") \o tr.logs, tr.thrown, 0)
              ELSE Outcome(b1, TRUE, Log(cfg, "debug"), FALSE, 0)
    ELSE IF b.state = "CLOSED"
         THEN Outcome(cleanOldFailures(b, cfg, r[1]), TRUE, <<>>, FALSE, 1)
         ELSE Outcome(b, TRUE, <<>>, FALSE, 0)

recordFailure(b, cfg, error, r) ==
    IF ~shouldCountError(cfg, error)
    THEN Outcome(b, TRUE, Log(cfg, "debug"), LogThrows(cfg), 0)
    ELSE LET b1 == [b EXCEPT !.failures =
                        Append(@, [timestamp |-> r[1], error |-> error])] IN
         IF LogThrows(cfg)
         THEN Outcome(b1, TRUE, <<>>, TRUE, 1)
         ELSE IF b1.state = "HALF_OPEN"
              THEN LET tr == transitionTo(b1, cfg, "OPEN", r[2])
                   IN  Outcome(tr.b, TRUE, Log(cfg, "debug") \o tr.logs, tr.thrown, 2)
              ELSE IF b1.state = "CLOSED"
                   THEN LET b2 == cleanOldFailures(b1, cfg, r[2]) IN
                        IF failureThresholdReached(b2, cfg)
                        THEN LET tr == transitionTo(b2, cfg, "OPEN", r[3])
                             IN  Outcome(tr.b, TRUE, Log(cfg, "debug") \o tr.logs,
                                         tr.thrown, 3)
                        ELSE Outcome(b2, TRUE, Log(cfg, "debug"), FALSE, 2)
                   ELSE Outcome(b1, TRUE, Log(cfg, "debug"), FALSE, 1)

getState(b) == b.state

\* Mutant: the remaining time is not clamped at 0.
getStats_noClamp(b, cfg, t) ==
    [state             |-> b.state,
     failures          |-> Len(b.failures),
     successes         |-> b.successes,
     openedAt          |-> b.openedAt,
     timeUntilHalfOpen |-> IF b.state = "OPEN"
                           THEN cfg.openTimeout - (t - b.openedAt)
                           ELSE 0]

\* The record getStats() returns; t is the clock reading made while OPEN.
getStats(b, cfg, t) ==
    [state             |-> b.state,
     failures          |-> Len(b.failures),
     successes         |-> b.successes,
     openedAt          |-> b.openedAt,
     timeUntilHalfOpen |-> IF b.state = "OPEN"
                           THEN Max(0, cfg.openTimeout - (t - b.openedAt))
                           ELSE 0]

\* Mutant: reset() acts only on an OPEN circuit.
reset_onlyOpen(b, cfg) ==
    IF b.state = "OPEN"
    THEN transitionTo(b, cfg, "CLOSED", 0)
    ELSE [b |-> b, logs |-> <<>>, thrown |-> FALSE]

reset(b, cfg) == transitionTo(b, cfg, "CLOSED", 0)

(* ------------------------------ the machine ---------------------------- *)

\* The breaker as one record.
Breaker ==
    [state |-> state, failures |-> failures, successes |-> successes,
     openedAt |-> openedAt]

\* The clock readings a method call starting at time t can make.
Min(a, b) == IF a <= b THEN a ELSE b

Readings(t) ==
    {r \in {<<t, r2, r3>> : r2 \in t..Min(t + MaxDrift, MaxTime),
                            r3 \in t..Min(t + 2 * MaxDrift, MaxTime)} :
        r[3] >= r[2] /\ r[3] - r[2] <= MaxDrift}

\* The readings a call made, the ones it did not make repeating the last.
Made(r, n, t) == [i \in 1..3 |-> IF n = 0 THEN t ELSE IF i <= n THEN r[i] ELSE r[n]]

NoStats == getStats(NewBreaker, [openTimeout |-> 0], 0)

\* statsSeen remembers the latest getStats() call of the current OPEN period
\* (when it was made and the timeUntilHalfOpen it returned); any call that
\* enters or leaves OPEN forgets it.
NoneSeen == [seen |-> FALSE, at |-> 0, timeUntilHalfOpen |-> 0]

KeepSeen(out) ==
    statsSeen' = IF out.b.state = state /\ out.b.openedAt = openedAt
                 THEN statsSeen ELSE NoneSeen

\* What the last call was: the method, its argument, the fields it started
\* from (the failure sequence by its length), what it returned and emitted,
\* the clock readings it made and, for getStats(), the getStats() call of
\* this OPEN period that came before it.
Call(op, error, out, stats, value, r) ==
    [op     |-> op,
     error  |-> error,
     pre    |-> [state |-> state, successes |-> successes, openedAt |-> openedAt,
                 failures |-> Len(failures)],
     ret    |-> out.ret,
     stats  |-> stats,
     value  |-> value,
     logs   |-> out.logs,
     thrown |-> out.thrown,
     t      |-> Made(r, out.reads, now),
     seen   |-> IF op = "getStats" THEN statsSeen ELSE NoneSeen]

\* The call leaves its fields in the breaker and the clock at its last
\* reading; r holds no reading beyond the ones the call made.
Install(out, r) ==
    /\ r = Made(r, out.reads, now)
    /\ state' = out.b.state
    /\ failures' = out.b.failures
    /\ successes' = out.b.successes
    /\ openedAt' = out.b.openedAt
    /\ now' = IF out.reads = 0 THEN now ELSE r[out.reads]
    /\ UNCHANGED config

\* No call: the breaker was just constructed, or the clock advanced.
Idle(op) ==
    [op |-> op, error |-> "",
     pre |-> [state |-> state, successes |-> successes, openedAt |-> openedAt,
              failures |-> Len(failures)],
     ret |-> TRUE, stats |-> NoStats, value |-> "", logs |-> <<>>,
     thrown |-> FALSE, t |-> [i \in 1..3 |-> now], seen |-> NoneSeen]

\* The concurrent callers of SpecTasks.  inflight[i] tells whether task i
\* has been admitted by canExecute() and has not reported yet: the state the
\* breaker was in when it admitted the task (NONE when the task is not in
\* flight) and whether the breaker has changed state since.  caller is the
\* task that made the last call, with what inflight held for it before.
Tasks == {"t1", "t2"}

NotInFlight == [admittedIn |-> "NONE", stale |-> FALSE]

NoCaller == [task |-> "none", admittedIn |-> "NONE", stale |-> FALSE]

\* The breaker freshly constructed with one of the configurations cfgs.
Constructed(cfgs) ==
    /\ state = NewBreaker.state
    /\ failures = NewBreaker.failures
    /\ successes = NewBreaker.successes
    /\ openedAt = NewBreaker.openedAt
    /\ config \in cfgs
    /\ now = 0
    /\ last = Idle("new")
    /\ statsSeen = NoneSeen
    /\ inflight = [i \in Tasks |-> NotInFlight]
    /\ caller = NoCaller

Init == Constructed(Configs)

\* A step of the single caller of Spec: no task is involved.
Solo == UNCHANGED <<inflight, caller>>

Tick ==
    /\ now < MaxTime
    /\ now' = now + 1
    /\ last' = Idle("tick")
    /\ UNCHANGED <<state, failures, successes, openedAt, config, statsSeen>>

CanExecute ==
    \E r \in Readings(now) :
        LET out == canExecute(Breaker, config, r) IN
        /\ Install(out, r)
        /\ last' = Call("canExecute", "", out, NoStats, "", r)
        /\ KeepSeen(out)

RecordSuccess ==
    \E r \in Readings(now) :
        LET out == recordSuccess(Breaker, config, r) IN
        /\ Install(out, r)
        /\ last' = Call("recordSuccess", "", out, NoStats, "", r)
        /\ KeepSeen(out)

RecordFailure ==
    \E error \in Errors, r \in Readings(now) :
        LET out == recordFailure(Breaker, config, error, r) IN
        /\ Len(failures) < MaxFailures
        /\ Install(out, r)
        /\ last' = Call("recordFailure", error, out, NoStats, "", r)
        /\ KeepSeen(out)

GetState ==
    LET out == Outcome(Breaker, TRUE, <<>>, FALSE, 0) IN
    /\ Install(out, <<now, now, now>>)
    /\ last' = Call("getState", "", out, NoStats, getState(Breaker), <<now, now, now>>)
    /\ KeepSeen(out)

GetStats ==
    LET r    == <<now, now, now>>
        out  == Outcome(Breaker, TRUE, <<>>, FALSE, IF state = "OPEN" THEN 1 ELSE 0)
        stats == getStats(Breaker, config, r[1])
    IN
    /\ Install(out, r)
    /\ last' = Call("getStats", "", out, stats, "", r)
    /\ statsSeen' = IF state = "OPEN"
                    THEN [seen |-> TRUE, at |-> r[1],
                          timeUntilHalfOpen |-> stats.timeUntilHalfOpen]
                    ELSE NoneSeen

Reset ==
    LET tr  == reset(Breaker, config)
        out == Outcome(tr.b, TRUE, tr.logs, tr.thrown, 0)
        r   == <<now, now, now>>
    IN
    /\ Install(out, r)
    /\ last' = Call("reset", "", out, NoStats, "", r)
    /\ KeepSeen(out)

Next ==
    \/ Tick /\ Solo
    \/ CanExecute /\ Solo
    \/ RecordSuccess /\ Solo
    \/ RecordFailure /\ Solo
    \/ GetState /\ Solo
    \/ GetStats /\ Solo
    \/ Reset /\ Solo

Spec == Init /\ [][Next]_vars

(* -------------------------- sinks that raise --------------------------- *)

\* Configurations with every kind of logger: none, a sink that returns, and
\* a sink whose debug/info/warn raise when called.
LogConfigs ==
    {[c EXCEPT !.logger = l] :
        c \in {PreKeyConfig, Config(2, 2, 1, 2, {"prekey missing"}, "none")},
        l \in {"none", "sink", "throws"}}

InitLog == Constructed(LogConfigs)

SpecLog == InitLog /\ [][Next]_vars

(* -------------------------- interleaved tasks -------------------------- *)

\* Callers as tasks of the one event loop: a task calls canExecute(), and
\* if admitted runs its call and later reports with recordSuccess() or
\* recordFailure().  Each method of the breaker runs to completion (it has
\* no await), so tasks interleave between the methods, never inside one.
TaskConfigs ==
    {PreKeyConfig, Config(2, 1, 2, 1, {"prekey missing"}, "sink")}

InitTasks == Constructed(TaskConfigs)

\* Task i makes the call; the tasks in flight other than i see the breaker
\* change state under them when the call changes it.
CalledBy(i, mine) ==
    /\ caller' = [task |-> i, admittedIn |-> inflight[i].admittedIn,
                  stale |-> inflight[i].stale]
    /\ inflight' =
          [j \in Tasks |->
              IF j = i THEN mine
              ELSE IF inflight[j] # NotInFlight /\ state' # state
                   THEN [inflight[j] EXCEPT !.stale = TRUE]
                   ELSE inflight[j]]

TaskTick ==
    /\ Tick
    /\ caller' = NoCaller
    /\ UNCHANGED inflight

TaskCanExecute(i) ==
    /\ inflight[i] = NotInFlight
    /\ CanExecute
    /\ CalledBy(i, IF last'.ret THEN [admittedIn |-> state', stale |-> FALSE]
                                ELSE NotInFlight)

TaskReportSuccess(i) ==
    /\ inflight[i] # NotInFlight
    /\ RecordSuccess
    /\ CalledBy(i, NotInFlight)

TaskReportFailure(i) ==
    /\ inflight[i] # NotInFlight
    /\ RecordFailure
    /\ CalledBy(i, NotInFlight)

NextTasks ==
    \/ TaskTick
    \/ \E i \in Tasks : TaskCanExecute(i)
    \/ \E i \in Tasks : TaskReportSuccess(i)
    \/ \E i \in Tasks : TaskReportFailure(i)

SpecTasks == InitTasks /\ [][NextTasks]_vars

(* ------------------------- the breaker left alone ---------------------- *)

\* The breaker used without reset(), by callers that keep calling
\* canExecute() while the clock keeps advancing.  The clock of the model
\* stops at MaxTime, so a circuit opens only if its timeout elapses by then.
LiveConfigs ==
    {Config(2, 1, 2, 1, {"prekey missing"}, "sink"),
     Config(2, 2, 1, 2, {"prekey missing"}, "none")}

InitLive == Constructed(LiveConfigs)

LiveRecordFailure ==
    /\ RecordFailure
    /\ state' = "OPEN" => openedAt' + config.openTimeout <= MaxTime

NextLive ==
    \/ Tick /\ Solo
    \/ CanExecute /\ Solo
    \/ RecordSuccess /\ Solo
    \/ LiveRecordFailure /\ Solo

SpecLive ==
    /\ InitLive
    /\ [][NextLive]_vars
    /\ WF_vars(Tick /\ Solo)
    /\ WF_vars(CanExecute /\ Solo)

(* ------------------------------ properties ----------------------------- *)

\* Whether the step just taken is a call of op.
Called(op) == last'.op = op

\* The error of the last recordFailure is one shouldCountError accepts.
Qualifying(call) == call.error \in config.shouldCountError

\* The number of records of the sequence fs (the one the call appended
\* included) that are younger than failureWindow at time t.
FreshCount(fs, t) ==
    Cardinality({i \in DOMAIN fs : t - fs[i].timestamp < config.failureWindow})

\* C1 (threshold property): a qualifying recordFailure while CLOSED that
\* leaves fewer than failureThreshold records inside the window keeps the
\* state CLOSED, and canExecute() while CLOSED returns true; the one that
\* makes the records inside the window reach failureThreshold sets the state
\* to OPEN with openedAt the instant of opening; and while the circuit stays
\* OPEN openedAt keeps that instant and every canExecute() made before
\* openTimeout has elapsed since it returns false and leaves the state OPEN.
C1_ThresholdStep ==
    /\ (Called("recordFailure") /\ Qualifying(last') /\ state = "CLOSED") =>
          LET all   == Append(failures, [timestamp |-> last'.t[1], error |-> last'.error])
              fresh == FreshCount(all, last'.t[2])
          IN  IF fresh < config.failureThreshold
              THEN state' = "CLOSED"
              ELSE state' = "OPEN" /\ openedAt' = last'.t[3]
    /\ (Called("canExecute") /\ state = "CLOSED") =>
          last'.ret = TRUE /\ state' = "CLOSED"
    /\ (state = "OPEN" /\ state' = "OPEN") => openedAt' = openedAt
    /\ (Called("canExecute") /\ state = "OPEN"
            /\ last'.t[2] - openedAt < config.openTimeout) =>
          last'.ret = FALSE /\ state' = "OPEN"

C1_Threshold == [][C1_ThresholdStep]_vars

\* C1 witness: the failureThreshold-th failure (of at least two) has just
\* opened the circuit.
C1_Witness ==
    /\ last.op = "recordFailure"
    /\ last.pre.state = "CLOSED"
    /\ last.pre.failures = config.failureThreshold - 1
    /\ config.failureThreshold >= 2
    /\ state = "OPEN"

\* C2 (window expiry): when a qualifying recordFailure while CLOSED evaluates
\* the threshold at time t, a record whose timestamp T has t - T >=
\* failureWindow is not counted: the circuit opens only if the records
\* younger than the window reach failureThreshold, and if it stays CLOSED
\* the sequence holds exactly the younger records.
C2_WindowStep ==
    (Called("recordFailure") /\ Qualifying(last') /\ state = "CLOSED") =>
        LET all   == Append(failures, [timestamp |-> last'.t[1], error |-> last'.error])
            t     == last'.t[2]
            fresh == FreshCount(all, t)
        IN  /\ state' = "OPEN" => fresh >= config.failureThreshold
            /\ state' = "CLOSED" =>
                  /\ Len(failures') = fresh
                  /\ \A i \in DOMAIN failures' :
                        t - failures'[i].timestamp < config.failureWindow

C2_WindowExpiry == [][C2_WindowStep]_vars

\* C2 witness: failureThreshold - 1 failures, then one more after the window
\* has passed, leave the circuit CLOSED with exactly one record.
C2_Witness ==
    /\ last.op = "recordFailure"
    /\ last.pre.state = "CLOSED"
    /\ config.failureThreshold >= 2
    /\ last.pre.failures = config.failureThreshold - 1
    /\ state = "CLOSED"
    /\ Len(failures) = 1

\* C3 (timeout recovery): a canExecute() made while OPEN at time t returns
\* false and leaves the state OPEN if t - openedAt < openTimeout, and returns
\* true and leaves the state HALF_OPEN if t - openedAt >= openTimeout.
C3_TimeoutRecovery ==
    (last.op = "canExecute" /\ last.pre.state = "OPEN") =>
        IF last.t[2] - last.pre.openedAt < config.openTimeout
        THEN last.ret = FALSE /\ state = "OPEN"
        ELSE last.ret = TRUE /\ state = "HALF_OPEN"

\* C3 witness: canExecute() exactly openTimeout after the opening.
C3_Witness ==
    /\ last.op = "canExecute"
    /\ last.pre.state = "OPEN"
    /\ last.t[2] - last.pre.openedAt = config.openTimeout
    /\ state = "HALF_OPEN"

\* C4 (probe success closes): a recordSuccess() while HALF_OPEN counts one
\* more success; if the new count is below successThreshold the state stays
\* HALF_OPEN with successes one higher, and if it reaches successThreshold
\* the state becomes CLOSED and the failure sequence is empty.
C4_ProbeSuccessCloses ==
    (last.op = "recordSuccess" /\ last.pre.state = "HALF_OPEN") =>
        IF last.pre.successes + 1 < config.successThreshold
        THEN state = "HALF_OPEN" /\ successes = last.pre.successes + 1
        ELSE state = "CLOSED" /\ failures = <<>>

\* C4 witness: with successThreshold = 2 the second success has just closed
\* a circuit whose failure sequence was not empty.
C4_Witness ==
    /\ last.op = "recordSuccess"
    /\ last.pre.state = "HALF_OPEN"
    /\ config.successThreshold = 2
    /\ last.pre.successes = 1
    /\ last.pre.failures > 0
    /\ state = "CLOSED"

\* C5 (probe failure reopens unconditionally): a qualifying recordFailure()
\* while HALF_OPEN leaves the state OPEN, openedAt at the clock reading made
\* on opening and successes at 0, whatever successes was and however many
\* records the sequence holds.
C5_ProbeFailureReopens ==
    (last.op = "recordFailure" /\ Qualifying(last) /\ last.pre.state = "HALF_OPEN") =>
        /\ state = "OPEN"
        /\ openedAt = last.t[2]
        /\ successes = 0

\* C5 witness: one failure reopened a circuit that had counted a success,
\* with fewer records than failureThreshold, at a later instant than the
\* previous opening.
C5_Witness ==
    /\ last.op = "recordFailure"
    /\ last.pre.state = "HALF_OPEN"
    /\ last.pre.successes >= 1
    /\ Len(failures) < config.failureThreshold
    /\ state = "OPEN"
    /\ openedAt > last.pre.openedAt

\* C6 (filter exclusion): a recordFailure(error) whose error shouldCountError
\* rejects leaves state, the failure sequence, successes and openedAt as
\* they were, in every state.
C6_FilterStep ==
    (Called("recordFailure") /\ ~Qualifying(last')) =>
        UNCHANGED <<state, failures, successes, openedAt>>

C6_FilterExclusion == [][C6_FilterStep]_vars

\* C6 witness: a rejected error reported while HALF_OPEN with records in
\* the sequence.
C6_Witness ==
    /\ last.op = "recordFailure"
    /\ ~Qualifying(last)
    /\ state = "HALF_OPEN"
    /\ Len(failures) > 0

\* C7 (idempotent reset): after reset() the state is CLOSED, the failure
\* sequence empty, successes 0 and openedAt 0; and in every reachable state
\* a second reset() leaves what the first one leaves.
C7_IdempotentReset ==
    /\ last.op = "reset" =>
          /\ state = "CLOSED"
          /\ failures = <<>>
          /\ successes = 0
          /\ openedAt = 0
    /\ reset(reset(Breaker, config).b, config).b = reset(Breaker, config).b
    /\ reset(Breaker, config).b = NewBreaker

\* C7 witness: reset() of an OPEN circuit opened after time 0 with records.
C7_Witness ==
    /\ last.op = "reset"
    /\ last.pre.state = "OPEN"
    /\ last.pre.openedAt > 0
    /\ last.pre.failures > 0

\* C8 (stats consistency): getStats().timeUntilHalfOpen is openTimeout less
\* the time since openedAt, or 0 if that is negative, when the state is
\* OPEN, and 0 in CLOSED and HALF_OPEN; and of two getStats() calls of one
\* OPEN period, the later one returns strictly less than the earlier,
\* unless the earlier returned 0, and then both return 0.
C8_StatsConsistency ==
    last.op = "getStats" =>
        LET got    == last.stats.timeUntilHalfOpen
            remain == config.openTimeout - (last.t[1] - openedAt)
        IN  /\ state = "OPEN" => got = (IF remain > 0 THEN remain ELSE 0)
            /\ state # "OPEN" => got = 0
            /\ (state = "OPEN" /\ last.seen.seen /\ last.seen.at < last.t[1]) =>
                  IF last.seen.timeUntilHalfOpen = 0
                  THEN got = 0
                  ELSE got < last.seen.timeUntilHalfOpen

\* C8 witness: a second getStats() of the same OPEN period, made later than
\* the first, both returning more than 0.
C8_Witness ==
    /\ last.op = "getStats"
    /\ state = "OPEN"
    /\ last.seen.seen
    /\ last.seen.at < last.t[1]
    /\ last.stats.timeUntilHalfOpen > 0

\* C9 (the transition table is exhaustive): a new breaker is CLOSED, and a
\* call that changes the state makes one of CLOSED -> OPEN (recordFailure,
\* pruned records >= failureThreshold), OPEN -> HALF_OPEN (canExecute,
\* elapsed >= openTimeout), HALF_OPEN -> CLOSED (recordSuccess, successes >=
\* successThreshold), HALF_OPEN -> OPEN (qualifying recordFailure), or any
\* state -> CLOSED by reset().
C9_TransitionTable ==
    /\ last.op = "new" => state = "CLOSED"
    /\ last.pre.state # state =>
          \/ /\ last.pre.state = "CLOSED" /\ state = "OPEN"
             /\ last.op = "recordFailure" /\ Qualifying(last)
             /\ Len(failures) >= config.failureThreshold
          \/ /\ last.pre.state = "OPEN" /\ state = "HALF_OPEN"
             /\ last.op = "canExecute"
             /\ last.t[2] - last.pre.openedAt >= config.openTimeout
          \/ /\ last.pre.state = "HALF_OPEN" /\ state = "CLOSED"
             /\ last.op = "recordSuccess"
             /\ last.pre.successes + 1 >= config.successThreshold
          \/ /\ last.pre.state = "HALF_OPEN" /\ state = "OPEN"
             /\ last.op = "recordFailure" /\ Qualifying(last)
          \/ /\ state = "CLOSED"
             /\ last.op = "reset"

\* C9 witness: a probe success closing the circuit.
C9_Witness ==
    /\ last.pre.state = "HALF_OPEN"
    /\ state = "CLOSED"
    /\ last.op = "recordSuccess"

AppendedWhileOpen(f) == state \in {"OPEN", "HALF_OPEN"} /\ f.timestamp > openedAt

\* C11 as stated (a record appended while OPEN affects a threshold
\* evaluation after the circuit closes): when probe successes close the
\* circuit, the records appended while OPEN that are still inside the
\* window stay in the failure sequence, to be counted by the next
\* recordFailure().
C11_OriginalStep ==
    (Called("recordSuccess") /\ state = "HALF_OPEN" /\ state' = "CLOSED") =>
        \A i \in DOMAIN failures :
            (AppendedWhileOpen(failures[i])
                /\ now' - failures[i].timestamp < config.failureWindow) =>
            \E j \in DOMAIN failures' : failures'[j] = failures[i]

C11_Original == [][C11_OriginalStep]_vars

\* C11 as amended: a qualifying recordFailure() while OPEN appends its
\* record and leaves state, successes and openedAt as they were; and every
\* step that closes the circuit leaves the failure sequence empty, so that
\* no record appended while OPEN is in the sequence when recordFailure()
\* compares the count to failureThreshold in a later CLOSED period.
C11_OpenFailureStep ==
    /\ (Called("recordFailure") /\ Qualifying(last') /\ state = "OPEN") =>
          /\ failures' = Append(failures, [timestamp |-> last'.t[1],
                                           error     |-> last'.error])
          /\ UNCHANGED <<state, successes, openedAt>>
    /\ (state # "CLOSED" /\ state' = "CLOSED") => failures' = <<>>

C11_OpenFailureRecorded == [][C11_OpenFailureStep]_vars

\* C11 witness: a qualifying failure has just been recorded while OPEN,
\* after openTimeout has elapsed.
C11_Witness ==
    /\ last.op = "recordFailure"
    /\ Qualifying(last)
    /\ last.pre.state = "OPEN"
    /\ state = "OPEN"
    /\ Len(failures) = last.pre.failures + 1
    /\ failures[Len(failures)].timestamp - openedAt >= config.openTimeout

\* The last call entered OPEN, entered CLOSED or was reset().
EnteredOpen == last.pre.state # "OPEN" /\ state = "OPEN"
EnteredClosed == (last.pre.state # "CLOSED" /\ state = "CLOSED") \/ last.op = "reset"

\* C12 as stated (openedAt is set exactly on a transition into OPEN and left
\* untouched otherwise): a step that is not a transition into OPEN leaves
\* openedAt as it was.
C12_Original == EnteredOpen \/ openedAt = last.pre.openedAt

\* C12 as amended: openedAt is set to the clock reading on a transition into
\* OPEN, set to 0 by a transition into CLOSED (reset() included), and left
\* untouched by every other step.
C12_OpenedAtFrame ==
    IF EnteredOpen THEN openedAt = last.t[3]
    ELSE IF EnteredClosed THEN openedAt = 0
    ELSE openedAt = last.pre.openedAt

\* C12 witness: a probe success closing a circuit opened after time 0.
C12_Witness ==
    /\ last.op = "recordSuccess"
    /\ last.pre.state = "HALF_OPEN"
    /\ last.pre.openedAt > 0
    /\ state = "CLOSED"
    /\ openedAt = 0

\* C14 (successes): successes is 0 after every transition, one more after a
\* recordSuccess() that leaves the state HALF_OPEN, and unchanged by every
\* other step; hence it is 0 whenever the state is not HALF_OPEN.
C14_Successes ==
    /\ state # "HALF_OPEN" => successes = 0
    /\ successes =
          IF last.pre.state # state \/ last.op = "reset" THEN 0
          ELSE IF last.op = "recordSuccess" /\ last.pre.state = "HALF_OPEN"
               THEN last.pre.successes + 1
               ELSE last.pre.successes

\* C14 witness: a failure reopening a circuit that had counted a success.
C14_Witness ==
    /\ last.op = "recordFailure"
    /\ last.pre.state = "HALF_OPEN"
    /\ last.pre.successes = 1
    /\ state = "OPEN"
    /\ successes = 0

\* C19 (thresholds are never reached at rest): while CLOSED the failure
\* sequence holds fewer than failureThreshold records and openedAt is 0,
\* and in every state successes is below successThreshold.
C19_BelowThresholds ==
    /\ state = "CLOSED" =>
          Len(failures) < config.failureThreshold /\ openedAt = 0
    /\ successes < config.successThreshold

\* C19 witness: CLOSED one failure short of the threshold, just after a
\* recordFailure().
C19_Witness ==
    /\ last.op = "recordFailure"
    /\ state = "CLOSED"
    /\ config.failureThreshold >= 2
    /\ Len(failures) = config.failureThreshold - 1

\* The records of fs a pruning pass at time t must keep, in their order:
\* those with timestamp > t - failureWindow.
RECURSIVE Survivors(_, _)
Survivors(fs, t) ==
    IF fs = <<>> THEN <<>>
    ELSE (IF Head(fs).timestamp > t - config.failureWindow
          THEN <<Head(fs)>> ELSE <<>>) \o Survivors(Tail(fs), t)

\* C15 (pruning invariant): after the pruning pass of canExecute() (in any
\* state), of recordSuccess() while CLOSED and of a qualifying
\* recordFailure() while CLOSED, made at time t, the failure sequence holds
\* exactly the records with timestamp > t - failureWindow, in their
\* insertion order.
C15_PruningStep ==
    /\ Called("canExecute") => failures' = Survivors(failures, last'.t[1])
    /\ (Called("recordSuccess") /\ state = "CLOSED") =>
          failures' = Survivors(failures, last'.t[1])
    /\ (Called("recordFailure") /\ Qualifying(last') /\ state = "CLOSED") =>
          failures' = Survivors(Append(failures, [timestamp |-> last'.t[1],
                                                  error     |-> last'.error]),
                                last'.t[2])

C15_PruningInvariant == [][C15_PruningStep]_vars

\* C15 witness: a canExecute() that removed some records and kept others.
C15_Witness ==
    /\ last.op = "canExecute"
    /\ Len(failures) > 0
    /\ Len(failures) < last.pre.failures

\* C16 (lazy timeout detection): while OPEN, the clock advancing and
\* recordSuccess(), recordFailure(), getState() and getStats() leave the
\* state OPEN and successes and openedAt as they were, however long ago the
\* circuit opened; recordSuccess() while OPEN changes no field; getState()
\* and getStats() change no field in any state; and only canExecute() takes
\* the circuit from OPEN to HALF_OPEN.
C16_LazyStep ==
    /\ (state = "OPEN" /\ last'.op \in {"tick", "recordSuccess", "recordFailure",
                                       "getState", "getStats"}) =>
          UNCHANGED <<state, successes, openedAt>>
    /\ (state = "OPEN" /\ Called("recordSuccess")) => UNCHANGED failures
    /\ last'.op \in {"getState", "getStats"} =>
          UNCHANGED <<state, failures, successes, openedAt>>
    /\ (state = "OPEN" /\ state' = "HALF_OPEN") => Called("canExecute")

C16_LazyTimeout == [][C16_LazyStep]_vars

\* C16 witness: a recordSuccess() made while OPEN after openTimeout has
\* elapsed, the circuit still OPEN.
C16_Witness ==
    /\ last.op = "recordSuccess"
    /\ last.pre.state = "OPEN"
    /\ state = "OPEN"
    /\ now - openedAt > config.openTimeout

\* What the call just made would have left and returned on the same fields,
\* with the same argument and clock readings, had no logger been configured.
WithoutLogger ==
    LET quiet == [config EXCEPT !.logger = "none"]
        op    == last'.op
        r     == last'.t
    IN  CASE op = "canExecute"    -> canExecute(Breaker, quiet, r)
          [] op = "recordSuccess" -> recordSuccess(Breaker, quiet, r)
          [] op = "recordFailure" -> recordFailure(Breaker, quiet, last'.error, r)
          [] op = "reset"         ->
                Outcome(reset(Breaker, quiet).b, TRUE, <<>>, FALSE, 0)
          [] OTHER                -> Outcome(Breaker, TRUE, <<>>, FALSE, 0)

\* C13 (logging never affects control flow): whatever the logger does, every
\* call leaves the fields and returns the value that the same call leaves
\* and returns on a breaker without a logger; so the two breakers, equal at
\* construction, stay equal call after call.
C13_LoggingStep ==
    last'.op \in {"canExecute", "recordSuccess", "recordFailure", "reset",
                  "getState", "getStats"} =>
        /\ Breaker' = WithoutLogger.b
        /\ last'.op = "canExecute" =>
              last'.ret = WithoutLogger.ret /\ ~last'.thrown
        /\ last'.op = "getState" => last'.value = getState(Breaker)
        /\ last'.op = "getStats" =>
              last'.stats =
                  getStats(Breaker, [config EXCEPT !.logger = "none"], last'.t[1])

C13_LoggingNeverAffects == [][C13_LoggingStep]_vars

\* A task that was admitted and has not reported, admitted in the HALF_OPEN
\* period the breaker is still in.
Probing(i) == inflight[i] = [admittedIn |-> "HALF_OPEN", stale |-> FALSE]

StaleReport(op, admitted, reported) ==
    /\ last.op = op
    /\ caller.admittedIn = admitted
    /\ last.pre.state = reported

\* C20 (stale outcome reports): a report acts on the state of the breaker
\* when it is made.  A recordSuccess() from a call admitted while CLOSED
\* that arrives while HALF_OPEN increments successes and closes the circuit
\* when the count reaches successThreshold; a qualifying recordFailure()
\* from such a call reopens the circuit; and a recordSuccess() from a call
\* admitted while HALF_OPEN that arrives when the breaker is no longer
\* HALF_OPEN is not counted.
C20_StaleReports ==
    /\ StaleReport("recordSuccess", "CLOSED", "HALF_OPEN") =>
          IF last.pre.successes + 1 >= config.successThreshold
          THEN state = "CLOSED" /\ successes = 0 /\ failures = <<>> /\ openedAt = 0
          ELSE state = "HALF_OPEN" /\ successes = last.pre.successes + 1
    /\ (StaleReport("recordFailure", "CLOSED", "HALF_OPEN") /\ Qualifying(last)) =>
          /\ state = "OPEN"
          /\ openedAt = last.t[2]
          /\ successes = 0
    /\ (StaleReport("recordSuccess", "HALF_OPEN", "OPEN")
          \/ StaleReport("recordSuccess", "HALF_OPEN", "CLOSED")) =>
          /\ state = last.pre.state
          /\ successes = last.pre.successes
          /\ openedAt = last.pre.openedAt

\* C20 witness: the circuit has just closed on the recordSuccess() of a call
\* admitted while CLOSED, before the circuit opened, with no success
\* counted before it in this HALF_OPEN period.
C20_Witness ==
    /\ StaleReport("recordSuccess", "CLOSED", "HALF_OPEN")
    /\ caller.stale
    /\ last.pre.successes = 0
    /\ state = "CLOSED"

\* C20 witness of the symmetric case: a late qualifying recordFailure() of a
\* call admitted while CLOSED has just reopened the HALF_OPEN circuit.
C20_WitnessReopen ==
    /\ StaleReport("recordFailure", "CLOSED", "HALF_OPEN")
    /\ caller.stale /\ Qualifying(last)
    /\ state = "OPEN"

\* The breaker after n more calls of recordFailure() with an error that
\* counts, all at the instant t.
RECURSIVE AfterFailures(_, _, _)
AfterFailures(b, n, t) ==
    IF n = 0 THEN b
    ELSE AfterFailures(recordFailure(b, config, CHOOSE e \in Errors : shouldCountError(config, e),
                                     <<t, t, t>>).b, n - 1, t)

\* The breaker after n more calls of recordSuccess() at the instant t.
RECURSIVE AfterSuccesses(_, _, _)
AfterSuccesses(b, n, t) ==
    IF n = 0 THEN b
    ELSE AfterSuccesses(recordSuccess(b, config, <<t, t, t>>).b, n - 1, t)

\* The way round the three states from the breaker b at the instant t: the
\* failures that open it (none if it is OPEN), the canExecute() made when
\* the timeout has elapsed, and the successes that close it.
Opened(b, t) ==
    CASE b.state = "OPEN" -> b
      [] b.state = "HALF_OPEN" -> AfterFailures(b, 1, t)
      [] b.state = "CLOSED" -> AfterFailures(b, config.failureThreshold, t)

ProbeTime(b, t) == Max(t, Opened(b, t).openedAt + config.openTimeout)

Probed(b, t) ==
    canExecute(Opened(b, t), config, [i \in 1..3 |-> ProbeTime(b, t)])

Closed(b, t) ==
    AfterSuccesses(Probed(b, t).b, config.successThreshold, ProbeTime(b, t))

\* From the current state calls of recordFailure(), canExecute() and
\* recordSuccess() lead to OPEN, then HALF_OPEN, then CLOSED.
C18_AllReachable ==
    /\ Opened(Breaker, now).state = "OPEN"
    /\ Probed(Breaker, now).ret /\ Probed(Breaker, now).b.state = "HALF_OPEN"
    /\ Closed(Breaker, now).state = "CLOSED"

\* C18 (no state is terminal): from every reachable state OPEN, HALF_OPEN
\* and CLOSED are reachable again, by calls that do not include reset();
\* and when the clock keeps advancing and canExecute() keeps being called,
\* a breaker that is OPEN eventually becomes HALF_OPEN.
C18_NoTerminalState ==
    /\ []C18_AllReachable
    /\ (state = "OPEN") ~> (state = "HALF_OPEN")

\* C18 witness: a canExecute() that found the circuit OPEN with its timeout
\* elapsed, after the clock advanced, has just made it HALF_OPEN.
C18_Witness ==
    /\ last.op = "canExecute" /\ last.pre.state = "OPEN"
    /\ state = "HALF_OPEN"
    /\ last.ret
    /\ last.t[2] - last.pre.openedAt >= config.openTimeout
    /\ config.openTimeout > 0

====
